---------------------------- MODULE Spec2Model ----------------------------
(***************************************************************************)
(* A model of email-invoice-manager (src/main.go).                         *)
(*                                                                         *)
(* Go strings are modelled as sequences of one-character strings, byte     *)
(* slices as sequences of numbers 0..255.  The module holds four           *)
(* specifications over the same variables:                                 *)
(*   SpecPrice    - extractPriceBetweenTwoStrings applied to bounded input *)
(*   SpecHtml     - extractTextFromHtml applied to bounded token streams   *)
(*   SpecClassify - the per-message classification of scrapeEmailInvoices  *)
(*   Spec         - invoiceManager: scrape, save, notify                   *)
(***************************************************************************)
EXTENDS Integers, Sequences, FiniteSets, TLC

VARIABLES
    call,          \* the function specifications: [op, args.., result]
    pc,            \* invoiceManager: position in the run
    configs,       \* readConfiguration(): []SourceConfig
    configIdx,     \* index of the current config / invoice group (1-based)
    sourceIdx,     \* index of the current source / invoice (1-based)
    invoiceGroups, \* scrapeEmailInvoices: invoiceGroups
    msgs,          \* number of message references msgs.Messages holds
    msgIdx,        \* position of the range loop over msgs.Messages (1-based)
    cur,           \* locals of the loop body once a message qualified
    status,        \* per rule: Pending, Done or Skipped
    noCandidates,  \* rules whose search returned no message reference
    searched,      \* rules for which Users.Messages.List was called
    inspected,     \* per message fetched for the current rule: did it qualify
    extractedAt,   \* message indexes of the current rule that reached extraction
    writes,        \* per rule: how often its invoice slot was written
    lastText,      \* invoiceText handed to the price parser, last extraction
    lastAttachment,\* attachment.Data fetched, last extraction
    uploaded,      \* saveInvoices: the slots whose file was created
    sent           \* sendNotification: the text handed to http.Get, or NotSent

pipeVars == <<pc, configs, configIdx, sourceIdx, invoiceGroups, msgs, msgIdx,
              cur, status, noCandidates, searched, inspected, extractedAt, writes,
              lastText, lastAttachment, uploaded, sent>>
vars == <<call, pc, configs, configIdx, sourceIdx, invoiceGroups, msgs, msgIdx,
          cur, status, noCandidates, searched, inspected, extractedAt, writes,
          lastText, lastAttachment, uploaded, sent>>

---------------------------------------------------------------------------
(* Bounds of the model *)

\* longest generated haystack of SpecPrice
MaxHaystack == 5
\* longest generated token stream of SpecHtml
MaxTokens == 4
\* longest generated header list and part list of a message
MaxHeaders == 2
MaxParts == 2
\* most message references one search returns
MaxMsgs == 2

---------------------------------------------------------------------------
(* Strings *)

RECURSIVE SeqsUpTo(_, _)
\* all sequences over S of length at most n
SeqsUpTo(S, n) ==
    IF n = 0 THEN {<<>>}
    ELSE LET shorter == SeqsUpTo(S, n - 1)
         IN  shorter \cup {Append(s, x) : s \in {t \in shorter : Len(t) = n - 1}, x \in S}

\* s[lo:hi] of Go, 0-based, lo inclusive, hi exclusive; the caller checks bounds
Slice(s, lo, hi) == SubSeq(s, lo + 1, hi)

\* strings.HasPrefix(s[i:], sub)
MatchAt(s, sub, i) ==
    /\ i + Len(sub) <= Len(s)
    /\ \A k \in 1..Len(sub) : s[i + k] = sub[k]

\* strings.Index: 0-based index of the first occurrence of sub in s, or -1
Index(s, sub) ==
    LET hits == {i \in 0..Len(s) : MatchAt(s, sub, i)}
    IN  IF hits = {} THEN -1 ELSE CHOOSE i \in hits : \A j \in hits : i <= j

\* strings.Contains
Contains(s, sub) == Index(s, sub) >= 0

Letters ==
    {"a","b","c","d","e","f","g","h","i","j","k","l","m","n","o","p","q","r",
     "s","t","u","v","w","x","y","z",
     "A","B","C","D","E","F","G","H","I","J","K","L","M","N","O","P","Q","R",
     "S","T","U","V","W","X","Y","Z"}

\* the cutset of the strings.Trim call, rune by rune as the source file holds it;
\* the three non-ASCII runes are written by their code points
PriceCutset == {" ", "\n", "\t", "U+00E2", "U+201A", "U+00AC"} \cup Letters

RECURSIVE TrimLeft(_, _)
TrimLeft(s, cutset) ==
    IF s # <<>> /\ Head(s) \in cutset THEN TrimLeft(Tail(s), cutset) ELSE s

RECURSIVE TrimRight(_, _)
TrimRight(s, cutset) ==
    IF s # <<>> /\ s[Len(s)] \in cutset
    THEN TrimRight(SubSeq(s, 1, Len(s) - 1), cutset) ELSE s

\* strings.Trim
Trim(s, cutset) == TrimRight(TrimLeft(s, cutset), cutset)

\* strings.Replace(s, old, "", 1) for a one-character old
ReplaceFirst(s, old) ==
    LET i == Index(s, <<old>>)
    IN  IF i < 0 THEN s ELSE SubSeq(s, 1, i) \o SubSeq(s, i + 2, Len(s))

Digits == <<"0","1","2","3","4","5","6","7","8","9">>
IsDigit(c) == \E d \in 1..10 : Digits[d] = c
DigitVal(c) == (CHOOSE d \in 1..10 : Digits[d] = c) - 1

RECURSIVE DecVal(_)
\* the number a run of decimal digits denotes
DecVal(s) ==
    IF s = <<>> THEN 0
    ELSE 10 * DecVal(SubSeq(s, 1, Len(s) - 1)) + DigitVal(s[Len(s)])

\* bitSize of the strconv.ParseUint call
PriceBitSize == 16

RECURSIVE Pow2(_)
Pow2(n) == IF n = 0 THEN 1 ELSE 2 * Pow2(n - 1)

\* strconv.ParseUint(s, 10, bitSize): a value, or a syntax or range error
ParseUint(s, bitSize) ==
    IF s = <<>> \/ \E k \in 1..Len(s) : ~IsDigit(s[k])
    THEN [err |-> "syntax", value |-> 0]
    ELSE IF DecVal(s) >= Pow2(bitSize)
    THEN [err |-> "range", value |-> 0]
    ELSE [err |-> "", value |-> DecVal(s)]

---------------------------------------------------------------------------
(* extractPriceBetweenTwoStrings *)

\* Outcomes of a call: a runtime panic (slice bounds out of range), a returned
\* error, or a returned amount.
Panic == [kind |-> "panic", value |-> 0]
Failure(e) == [kind |-> e, value |-> 0]
Amount(v) == [kind |-> "ok", value |-> v]

\* Fault injection: the slices start at priceLineIndex, the length of
\* firstString forgotten.
PriceStart_IndexOnly(haystack, firstString) == Index(haystack, firstString)

\* the low bound of both slice expressions: priceLineIndex+len(firstString)
PriceStart(haystack, firstString) ==
    Index(haystack, firstString) + Len(firstString)

extractPriceBetweenTwoStrings(haystack, firstString, secondString) ==
    LET start == PriceStart(haystack, firstString)
    IN  IF start < 0 \/ start > Len(haystack) THEN Panic
        ELSE
        LET newLineIndex == Index(Slice(haystack, start, Len(haystack)), secondString)
        IN  IF start + newLineIndex < start THEN Panic
            ELSE
            LET euros == Trim(Slice(haystack, start, start + newLineIndex), PriceCutset)
                cents == ReplaceFirst(euros, ",")
                parsed == ParseUint(cents, PriceBitSize)
            IN  IF parsed.err # "" THEN Failure(parsed.err)
                ELSE Amount(parsed.value)

---------------------------------------------------------------------------
(* extractTextFromHtml *)

\* A document is the token stream html.NewTokenizer yields for it, up to the
\* ErrorToken that ends it.  A token is [Type, Data]: Data is the tag name of
\* a tag token and the raw text of a text token.  A text is a sequence of
\* lexical units: a character, or a whole character reference such as "&amp;".
Token(type, data) == [Type |-> type, Data |-> data]

ScriptTag == <<"s","c","r","i","p","t">>
StyleTag == <<"s","t","y","l","e">>

\* html.UnescapeString, unit by unit
UnescapeUnit(u) ==
    CASE u = "&amp;" -> "&"
      [] u = "&lt;" -> "<"
      [] u = "&nbsp;" -> "U+00A0"
      [] OTHER -> u
UnescapeString(s) == [k \in 1..Len(s) |-> UnescapeUnit(s[k])]

\* unicode.IsSpace
WhiteSpace == {" ", "\t", "\n", "U+000B", "U+000C", "\r", "U+0085", "U+00A0"}

\* strings.TrimSpace
TrimSpace(s) == Trim(s, WhiteSpace)

\* the case tt == html.TextToken: what the builder receives for one text token
TextLine(previousStartTokenTest, data) ==
    IF previousStartTokenTest = ScriptTag \/ previousStartTokenTest = StyleTag
    THEN <<>>
    ELSE LET TxtContent == TrimSpace(UnescapeString(data))
         IN  IF Len(TxtContent) > 0 THEN TxtContent \o <<"\n">> ELSE <<>>

RECURSIVE HtmlLoop(_, _, _, _)
\* the loop loopDomTest from token i on
HtmlLoop(tokens, i, previousStartTokenTest, builder) ==
    IF i > Len(tokens) THEN builder
    ELSE IF tokens[i].Type = "StartTag"
    THEN HtmlLoop(tokens, i + 1, tokens[i].Data, builder)
    ELSE IF tokens[i].Type = "Text"
    THEN HtmlLoop(tokens, i + 1, previousStartTokenTest,
                  builder \o TextLine(previousStartTokenTest, tokens[i].Data))
    ELSE HtmlLoop(tokens, i + 1, previousStartTokenTest, builder)

\* previousStartTokenTest starts as the zero Token, whose Data is ""
extractTextFromHtml(tokens) == HtmlLoop(tokens, 1, <<>>, <<>>)

---------------------------------------------------------------------------
(* base64.URLEncoding.DecodeString *)

B64Alphabet ==
    <<"A","B","C","D","E","F","G","H","I","J","K","L","M","N","O","P","Q","R",
      "S","T","U","V","W","X","Y","Z",
      "a","b","c","d","e","f","g","h","i","j","k","l","m","n","o","p","q","r",
      "s","t","u","v","w","x","y","z",
      "0","1","2","3","4","5","6","7","8","9","-","_">>
IsB64(c) == \E v \in 1..Len(B64Alphabet) : B64Alphabet[v] = c
B64Val(c) == (CHOOSE v \in 1..Len(B64Alphabet) : B64Alphabet[v] = c) - 1

\* the bytes of one quantum of four characters, or Corrupt; padding is
\* accepted in the last quantum only
Corrupt == <<-1>>
B64Quantum(q, last) ==
    IF ~IsB64(q[1]) \/ ~IsB64(q[2]) THEN Corrupt
    ELSE LET v1 == B64Val(q[1])
             v2 == B64Val(q[2])
             b1 == (v1 * 4 + v2 \div 16) % 256
         IN  IF q[3] = "=" THEN (IF q[4] = "=" /\ last THEN <<b1>> ELSE Corrupt)
             ELSE IF ~IsB64(q[3]) THEN Corrupt
             ELSE LET v3 == B64Val(q[3])
                      b2 == ((v2 % 16) * 16 + v3 \div 4) % 256
                  IN  IF q[4] = "=" THEN (IF last THEN <<b1, b2>> ELSE Corrupt)
                      ELSE IF ~IsB64(q[4]) THEN Corrupt
                      ELSE <<b1, b2, ((v3 % 4) * 64 + B64Val(q[4])) % 256>>

RECURSIVE B64Decode(_)
\* [err, bytes]: the padded URL alphabet, four characters at a time
B64Decode(s) ==
    IF s = <<>> THEN [err |-> FALSE, bytes |-> <<>>]
    ELSE IF Len(s) < 4 THEN [err |-> TRUE, bytes |-> <<>>]
    ELSE LET q == B64Quantum(SubSeq(s, 1, 4), Len(s) = 4)
             rest == B64Decode(SubSeq(s, 5, Len(s)))
         IN  IF q = Corrupt \/ rest.err THEN [err |-> TRUE, bytes |-> <<>>]
             ELSE [err |-> FALSE, bytes |-> q \o rest.bytes]

---------------------------------------------------------------------------
(* scrapeEmailInvoices: the classification of one message *)

\* gmail.MessagePartHeader; Name is compared whole, Value is searched
Header(name, value) == [Name |-> name, Value |-> value]

\* gmail.MessagePart; Body.present is part.Body != nil
Part(mime, filename, present, attachmentId, data) ==
    [MimeType |-> mime, Filename |-> filename,
     Body |-> [present |-> present, AttachmentId |-> attachmentId, Data |-> data]]

\* the condition of the body branch and of the attachment branch of the scan
IsHtmlPart(part) == part.MimeType = "text/html"
IsAttachmentPart(part) ==
    part.Filename # "" /\ part.Body.present /\ part.Body.AttachmentId # ""

\* Fault injection: the header's name is not looked at.
FindSubject_AnyName(headers, source) ==
    LET hits == {i \in 1..Len(headers) :
                    Contains(headers[i].Value, source.SubjectContains)}
    IN  IF hits = {} THEN 0 ELSE CHOOSE i \in hits : \A j \in hits : i <= j

\* the loop "Find subject": the index of the header kept, 0 for nil
FindSubject(headers, source) ==
    LET hits == {i \in 1..Len(headers) :
                    /\ headers[i].Name = "Subject"
                    /\ Contains(headers[i].Value, source.SubjectContains)}
    IN  IF hits = {} THEN 0 ELSE CHOOSE i \in hits : \A j \in hits : i <= j

\* one iteration of the loop "Find attachment"; sel = [bodyPart, attachmentPart],
\* each the index of the part held, 0 for nil
SelectPart(sel, parts, i) ==
    IF sel.bodyPart = 0 /\ IsHtmlPart(parts[i])
    THEN [sel EXCEPT !.bodyPart = i]
    ELSE IF sel.attachmentPart = 0 /\ IsAttachmentPart(parts[i])
    THEN [sel EXCEPT !.attachmentPart = i]
    ELSE sel

RECURSIVE SelectParts(_, _, _)
\* the loop "Find attachment" from part i on
SelectParts(sel, parts, i) ==
    IF i > Len(parts) THEN sel
    ELSE SelectParts(SelectPart(sel, parts, i), parts, i + 1)

\* what the loop body decides for a fetched message, up to the attachment
\* check: the header and parts kept, and whether extraction is entered
Classify(msg, source) ==
    LET subjectHeader == FindSubject(msg.Headers, source)
        sel == SelectParts([bodyPart |-> 0, attachmentPart |-> 0], msg.Parts, 1)
    IN  IF subjectHeader = 0
        THEN [subjectHeader |-> 0, bodyPart |-> 0, attachmentPart |-> 0,
              proceeds |-> FALSE]
        ELSE [subjectHeader |-> subjectHeader, bodyPart |-> sel.bodyPart,
              attachmentPart |-> sel.attachmentPart,
              proceeds |-> sel.attachmentPart # 0]

---------------------------------------------------------------------------
(* The run's inputs: configuration.json and what the services answer *)

Source(billName, location, before, after) ==
    [BillName |-> billName, From |-> "billing@example.org",
     SubjectContains |-> <<"I","n","v">>, Location |-> location,
     StringBeforePrice |-> before, StringAfterPrice |-> after]

SourceConfig(name, destination, sources) ==
    [Name |-> name, DriveDestination |-> destination, Sources |-> sources]

Electric ==
    Source(<<"E","l","e","c","t","r","i","c">>, "attachment",
           <<"T","o","t","a","l"," ">>, <<" ","E","U","R">>)

\* the configurations a run is started with
ConfigSet ==
    { << SourceConfig(<<"H","o","m","e">>, "folder1",
                      << Source(<<"G","a","s">>, "body", <<"T">>, <<"E">>),
                         Source(<<>>, "attachment", <<"T">>, <<"E">>) >>),
         SourceConfig(<<"C","a","r">>, "folder2", << Electric >>) >>,
      << SourceConfig(<<"O","l","d">>, "folder3", <<>>),
         SourceConfig(<<"N","e","w">>, "folder4",
                      << Source(<<>>, "attachment", <<"T">>, <<"E">>),
                         Source(<<"W">>, "email", <<"T">>, <<"E">>) >>) >> }

\* the month argument and month.AddDate(0, 1, 0), in milliseconds
month == 10
MonthLength == 2
nextMonth == month + MonthLength

\* msg.InternalDate of the messages the mailbox may hold
Dates == (month - 1)..(nextMonth + 1)

HtmlInline == Part("text/html", "", TRUE, "", <<"P","H","A","-">>)
HtmlCorrupt == Part("text/html", "", TRUE, "", <<"P","H","A">>)
HtmlAttached == Part("text/html", "bill.html", TRUE, "att1", <<>>)
PdfAttached == Part("application/pdf", "bill.pdf", TRUE, "att2", <<>>)
PdfNoId == Part("application/pdf", "bill.pdf", TRUE, "", <<>>)
PdfNoName == Part("application/pdf", "", TRUE, "att3", <<>>)
NoBody == Part("multipart/alternative", "bill.pdf", FALSE, "", <<>>)

PartKinds == {HtmlInline, HtmlAttached, PdfAttached, PdfNoId, PdfNoName, NoBody}

HeaderKinds ==
    { Header("Subject", <<"a"," ","I","n","v">>),
      Header("Subject", <<"i","n","v">>),
      Header("subject", <<"a"," ","I","n","v">>),
      Header("From", <<"a"," ","I","n","v">>) }

Message(date, headers, parts) ==
    [InternalDate |-> date, Headers |-> headers, Parts |-> parts]

\* what Users.Messages.Get may answer during a run
Inbox ==
    { Message(d, h, p) :
        d \in Dates,
        h \in { <<>>, <<Header("Subject", <<"a"," ","I","n","v">>)>>,
                <<Header("Subject", <<"i","n","v">>)>> },
        p \in { <<>>, <<HtmlInline>>, <<PdfAttached>>, <<PdfNoId>>,
                <<HtmlInline, PdfAttached>>, <<HtmlCorrupt, PdfAttached>>,
                <<HtmlAttached, PdfAttached>>, <<PdfAttached, PdfAttached>> } }

\* attachment.Data as Users.Messages.Attachments.Get may answer it
AttachmentDatas == { <<"J","Q","=","=">>, <<"J","V","B","E">>, <<"J">> }

\* the first page as pdftotext may print it
PageTexts ==
    { <<"T","4","5",",","6","7","E">>,
      <<"T","0",",","0","0","E">>,
      <<"x"," ","T","o","t","a","l"," ","4","5",",","6","7"," ","E","U","R","\n">>,
      <<"T","x","E">>,
      <<>> }

\* the token streams the tokenizer may yield for a decoded body
BodyDocs ==
    { << Token("StartTag", <<"p">>), Token("Text", <<" ","T","0",",","0","0","E"," ">>),
         Token("EndTag", <<"p">>) >>,
      << Token("StartTag", StyleTag), Token("Text", <<"T","1",",","5","E">>),
         Token("EndTag", StyleTag),
         Token("StartTag", <<"p">>), Token("Text", <<"T","4","5",",","6","7","E">>) >>,
      << Token("Text", <<"T","&amp;","E">>) >> }

\* html.NewTokenizer on the decoded body: nothing for an empty body
Tokenizations(decodedBody) == IF decodedBody = <<>> THEN {<<>>} ELSE BodyDocs

---------------------------------------------------------------------------
(* Invoice, InvoiceGroup and the summary *)

ZeroInvoice == [FileName |-> <<>>, FileContents |-> <<>>, Value |-> 0]
ZeroGroup == [Name |-> <<>>, DriveDestination |-> "", Invoices |-> <<>>]

\* the rules of a configuration, each named by <<configIdx, sourceIdx>>
Rules(cfg) == UNION {{<<g, i>> : i \in 1..Len(cfg[g].Sources)} : g \in 1..Len(cfg)}

RECURSIVE Dec(_)
\* the verb %d for an unsigned number
Dec(n) == IF n < 10 THEN <<Digits[n + 1]>> ELSE Dec(n \div 10) \o <<Digits[(n % 10) + 1]>>

\* Fault injection: the extension is left off.
InvoiceFileName_NoExtension(source) == source.BillName

\* source.BillName + ".pdf"
InvoiceFileName(source) == source.BillName \o <<".","p","d","f">>

\* sendNotification: the line written for one invoice
InvoiceLine(invoice) ==
    <<"+"," ">> \o invoice.FileName \o <<" ","-"," ">>
        \o Dec(invoice.Value \div 100) \o <<",">> \o Dec(invoice.Value % 100) \o <<"\n">>

RECURSIVE InvoiceLines(_, _)
InvoiceLines(invoices, i) ==
    IF i > Len(invoices) THEN <<>>
    ELSE InvoiceLine(invoices[i]) \o InvoiceLines(invoices, i + 1)

RECURSIVE Total(_, _)
Total(invoices, i) ==
    IF i > Len(invoices) THEN 0 ELSE invoices[i].Value + Total(invoices, i + 1)

RECURSIVE NotificationText(_, _)
\* sendNotification: message.String(), from group idx on
NotificationText(groups, idx) ==
    IF idx > Len(groups) THEN <<>>
    ELSE LET total == Total(groups[idx].Invoices, 1)
         IN  (IF idx > 1 THEN <<"\n">> ELSE <<>>)
             \o Dec(idx) \o <<"."," ">> \o groups[idx].Name \o <<"\n">>
             \o InvoiceLines(groups[idx].Invoices, 1)
             \o <<"T","o","t","a","l",":"," ">> \o Dec(total \div 100) \o <<",">>
             \o Dec(total % 100) \o <<"\n">>
             \o NotificationText(groups, idx + 1)

---------------------------------------------------------------------------
(* invoiceManager *)

Control(p, g, i) == [pc |-> p, configIdx |-> g, sourceIdx |-> i]

\* Fault injection: the error is logged and the loop carries on with the next
\* source.
Fatalf_LogOnly(cfg, g, i) ==
    IF g \in 1..Len(cfg) /\ i \in 1..Len(cfg[g].Sources)
    THEN IF i < Len(cfg[g].Sources) THEN Control("search", g, i + 1)
         ELSE IF g < Len(cfg) THEN Control("config", g + 1, 0)
         ELSE Control("save", 1, 0)
    ELSE Control("failed", g, i)

\* log.Fatalf: the process exits where it stands
Fatalf(cfg, g, i) == Control("failed", g, i)

RECURSIVE NextInvoice(_, _, _)
\* the range loops of saveInvoices move on from invoice i of group g (i = 0:
\* the group is entered); past the last group sendNotification is called
NextInvoice(cfg, g, i) ==
    IF g > Len(cfg) THEN Control("notify", 1, 0)
    ELSE IF i < Len(cfg[g].Sources) THEN Control("save", g, i + 1)
    ELSE NextInvoice(cfg, g + 1, 0)

\* the outer range loop of scrapeEmailInvoices reaches index g; past the last
\* config the function returns and saveInvoices starts
NextConfig(cfg, g) ==
    IF g > Len(cfg) THEN NextInvoice(cfg, 1, 0) ELSE Control("config", g, 0)

\* the inner range loop moves on from source i of config g
NextSource(cfg, g, i) ==
    IF i < Len(cfg[g].Sources) THEN Control("search", g, i + 1)
    ELSE NextConfig(cfg, g + 1)

\* Fault injection: no break, the loop goes on to the next message.
AfterInvoice_NoBreak(i, n) == i + 1

\* the break that ends the loop over msgs.Messages once an invoice is stored:
\* the loop position it leaves behind
AfterInvoice(i, n) == n + 1

\* Fault injection: the assignment of FileContents is missing.
StoreInvoice_NoContents(groups, g, i, source, priceCents, attachmentBytes) ==
    [groups EXCEPT ![g].Invoices[i] =
        [FileName |-> source.BillName \o <<".","p","d","f">>,
         FileContents |-> @.FileContents,
         Value |-> priceCents]]

\* the three assignments to invoiceGroups[configIdx].Invoices[sourceIdx]
StoreInvoice(groups, g, i, source, priceCents, attachmentBytes) ==
    [groups EXCEPT ![g].Invoices[i] =
        [FileName |-> InvoiceFileName(source),
         FileContents |-> attachmentBytes,
         Value |-> priceCents]]

\* internalDate.Before(month) || internalDate.After(nextMonth)
OutsideTimeRange(internalDate) == internalDate < month \/ internalDate > nextMonth

NoPart == Part("", "", FALSE, "", <<>>)
NoMessage == [InternalDate |-> 0, attachmentPart |-> NoPart, bodyPart |-> NoPart,
              hasBody |-> FALSE]
NotSent == [done |-> FALSE, text |-> <<>>]

SetControl(c) ==
    /\ pc' = c.pc
    /\ configIdx' = c.configIdx
    /\ sourceIdx' = c.sourceIdx

InitPipeline ==
    /\ configs \in ConfigSet
    /\ pc = "config"
    /\ configIdx = 1
    /\ sourceIdx = 0
    /\ invoiceGroups = [g \in 1..Len(configs) |-> ZeroGroup]
    /\ msgs = 0
    /\ msgIdx = 1
    /\ cur = NoMessage
    /\ status = [r \in Rules(configs) |-> "Pending"]
    /\ noCandidates = {}
    /\ searched = {}
    /\ inspected = <<>>
    /\ extractedAt = {}
    /\ writes = [r \in Rules(configs) |-> 0]
    /\ lastText = <<>>
    /\ lastAttachment = <<>>
    /\ uploaded = {}
    /\ sent = NotSent

\* the head of the outer loop body: name, destination and the preallocated slots
BeginConfig ==
    /\ pc = "config"
    /\ invoiceGroups' = [invoiceGroups EXCEPT ![configIdx] =
            [Name |-> configs[configIdx].Name,
             DriveDestination |-> configs[configIdx].DriveDestination,
             Invoices |-> [i \in 1..Len(configs[configIdx].Sources) |-> ZeroInvoice]]]
    /\ SetControl(NextSource(configs, configIdx, 0))
    /\ UNCHANGED <<call, configs, msgs, msgIdx, cur, status, noCandidates, searched,
                   inspected, extractedAt, writes, lastText, lastAttachment,
                   uploaded, sent>>

\* Users.Messages.List for the current source
ListMessages ==
    /\ pc = "search"
    /\ searched' = searched \cup {<<configIdx, sourceIdx>>}
    /\ inspected' = <<>>
    /\ extractedAt' = {}
    /\ lastText' = <<>>
    /\ lastAttachment' = <<>>
    /\ cur' = NoMessage
    /\ msgIdx' = 1
    /\ \/ /\ SetControl(Fatalf(configs, configIdx, sourceIdx))
          /\ UNCHANGED <<msgs, status, noCandidates>>
       \/ /\ msgs' = 0
          /\ status' = [status EXCEPT ![<<configIdx, sourceIdx>>] = "Skipped"]
          /\ noCandidates' = noCandidates \cup {<<configIdx, sourceIdx>>}
          /\ SetControl(NextSource(configs, configIdx, sourceIdx))
       \/ /\ msgs' \in 1..MaxMsgs
          /\ pc' = "inspect"
          /\ UNCHANGED <<configIdx, sourceIdx, status, noCandidates>>
    /\ UNCHANGED <<call, configs, invoiceGroups, writes, uploaded, sent>>

\* one pass of the loop over msgs.Messages up to the attachment check
InspectMessage ==
    /\ pc = "inspect"
    /\ \/ /\ SetControl(Fatalf(configs, configIdx, sourceIdx))
          /\ UNCHANGED <<msgIdx, cur, status, inspected, extractedAt>>
       \/ \E msg \in Inbox :
            LET c == Classify(msg, configs[configIdx].Sources[sourceIdx])
            IN  IF OutsideTimeRange(msg.InternalDate)
                THEN /\ SetControl(Fatalf(configs, configIdx, sourceIdx))
                     /\ UNCHANGED <<msgIdx, cur, status, inspected, extractedAt>>
                ELSE IF c.proceeds
                THEN /\ pc' = "extract"
                     /\ cur' = [InternalDate |-> msg.InternalDate,
                                attachmentPart |-> msg.Parts[c.attachmentPart],
                                bodyPart |-> IF c.bodyPart = 0 THEN NoPart
                                             ELSE msg.Parts[c.bodyPart],
                                hasBody |-> c.bodyPart # 0]
                     /\ inspected' = Append(inspected, TRUE)
                     /\ extractedAt' = extractedAt \cup {msgIdx}
                     /\ UNCHANGED <<configIdx, sourceIdx, msgIdx, status>>
                ELSE /\ inspected' = Append(inspected, FALSE)
                     /\ msgIdx' = msgIdx + 1
                     /\ IF msgIdx + 1 > msgs
                        THEN /\ status' = [status EXCEPT ![<<configIdx, sourceIdx>>] =
                                    IF @ = "Pending" THEN "Skipped" ELSE @]
                             /\ SetControl(NextSource(configs, configIdx, sourceIdx))
                        ELSE UNCHANGED <<pc, configIdx, sourceIdx, status>>
                     /\ UNCHANGED <<cur, extractedAt>>
    /\ UNCHANGED <<call, configs, invoiceGroups, msgs, noCandidates, searched, writes,
                   lastText, lastAttachment, uploaded, sent>>

\* the text the price is looked for in, by source.Location: each outcome is
\* [err, text], err for a log.Fatalf on the way
InvoiceTexts(source, message) ==
    IF source.Location = "body"
    THEN IF ~message.hasBody THEN {[err |-> TRUE, text |-> <<>>]}
         ELSE LET decodedBody == B64Decode(message.bodyPart.Body.Data)
              IN  IF decodedBody.err THEN {[err |-> TRUE, text |-> <<>>]}
                  ELSE {[err |-> FALSE, text |-> extractTextFromHtml(doc)] :
                            doc \in Tokenizations(decodedBody.bytes)}
    ELSE IF source.Location = "attachment"
    THEN {[err |-> TRUE, text |-> <<>>]}
            \cup {[err |-> FALSE, text |-> t] : t \in PageTexts}
    ELSE {[err |-> FALSE, text |-> <<>>]}

\* the rest of the loop body for a message that qualified: fetch and decode
\* the attachment, extract the text, parse the price, store the invoice, break
ExtractInvoice ==
    /\ pc = "extract"
    /\ LET source == configs[configIdx].Sources[sourceIdx]
           rule == <<configIdx, sourceIdx>>
       IN  \/ /\ SetControl(Fatalf(configs, configIdx, sourceIdx))
              /\ UNCHANGED <<invoiceGroups, msgIdx, status, writes, lastText,
                             lastAttachment>>
           \/ \E data \in AttachmentDatas, t \in InvoiceTexts(source, cur) :
                LET attachmentBytes == B64Decode(data)
                    price == extractPriceBetweenTwoStrings(
                                t.text, source.StringBeforePrice, source.StringAfterPrice)
                IN  IF attachmentBytes.err \/ t.err
                    THEN /\ SetControl(Fatalf(configs, configIdx, sourceIdx))
                         /\ UNCHANGED <<invoiceGroups, msgIdx, status, writes, lastText,
                                        lastAttachment>>
                    ELSE IF price.kind = "panic"
                    THEN /\ pc' = "panicked"
                         /\ UNCHANGED <<configIdx, sourceIdx, invoiceGroups, msgIdx,
                                        status, writes, lastText, lastAttachment>>
                    ELSE IF price.kind # "ok"
                    THEN /\ SetControl(Fatalf(configs, configIdx, sourceIdx))
                         /\ UNCHANGED <<invoiceGroups, msgIdx, status, writes, lastText,
                                        lastAttachment>>
                    ELSE /\ invoiceGroups' = StoreInvoice(invoiceGroups, configIdx,
                                sourceIdx, source, price.value, attachmentBytes.bytes)
                         /\ status' = [status EXCEPT ![rule] = "Done"]
                         /\ writes' = [writes EXCEPT ![rule] = @ + 1]
                         /\ lastText' = t.text
                         /\ lastAttachment' = data
                         /\ msgIdx' = AfterInvoice(msgIdx, msgs)
                         /\ IF AfterInvoice(msgIdx, msgs) > msgs
                            THEN SetControl(NextSource(configs, configIdx, sourceIdx))
                            ELSE /\ pc' = "inspect"
                                 /\ UNCHANGED <<configIdx, sourceIdx>>
    /\ UNCHANGED <<call, configs, msgs, cur, noCandidates, searched, inspected,
                   extractedAt, uploaded, sent>>

\* saveInvoices: one pass of the loop over a group's invoices; the folder and
\* file lookups and the creations may each fail
SaveInvoice ==
    /\ pc = "save"
    /\ \/ /\ SetControl(Fatalf(configs, configIdx, sourceIdx))
          /\ UNCHANGED uploaded
       \/ /\ SetControl(NextInvoice(configs, configIdx, sourceIdx))
          /\ UNCHANGED uploaded
       \/ /\ uploaded' = uploaded \cup {<<configIdx, sourceIdx>>}
          /\ SetControl(NextInvoice(configs, configIdx, sourceIdx))
    /\ UNCHANGED <<call, configs, invoiceGroups, msgs, msgIdx, cur, status,
                   noCandidates, searched, inspected, extractedAt, writes, lastText,
                   lastAttachment, sent>>

\* sendNotification as invoiceManager calls it (dryRun false)
SendNotification ==
    /\ pc = "notify"
    /\ \/ /\ SetControl(Fatalf(configs, configIdx, sourceIdx))
          /\ UNCHANGED sent
       \/ /\ sent' = [done |-> TRUE, text |-> NotificationText(invoiceGroups, 1)]
          /\ SetControl(Control("done", configIdx, sourceIdx))
    /\ UNCHANGED <<call, configs, invoiceGroups, msgs, msgIdx, cur, status,
                   noCandidates, searched, inspected, extractedAt, writes, lastText,
                   lastAttachment, uploaded>>

NoCall == [op |-> "none"]

Init == InitPipeline /\ call = NoCall

Next ==
    \/ BeginConfig
    \/ ListMessages
    \/ InspectMessage
    \/ ExtractInvoice
    \/ SaveInvoice
    \/ SendNotification

Spec == Init /\ [][Next]_vars

---------------------------------------------------------------------------
(* The functions on their own: inputs drawn in Init, one call each *)

\* the pipeline at rest while a function is exercised
IdlePipeline ==
    /\ pc = "idle"
    /\ configs = <<>>
    /\ configIdx = 1
    /\ sourceIdx = 0
    /\ invoiceGroups = <<>>
    /\ msgs = 0
    /\ msgIdx = 1
    /\ cur = NoMessage
    /\ status = <<>>
    /\ noCandidates = {}
    /\ searched = {}
    /\ inspected = <<>>
    /\ extractedAt = {}
    /\ writes = <<>>
    /\ lastText = <<>>
    /\ lastAttachment = <<>>
    /\ uploaded = {}
    /\ sent = NotSent

NoResult == [kind |-> "none", value |-> 0]

PriceChars == {"1", ",", "T", "E"}

PriceSamples ==
    { <<"T","o","t","a","l",":"," ","1","2",",","3","4"," ","E","U","R">>,
      <<"T","o","t","a","l",":"," ","0",",","0","0"," ","E","U","R">>,
      <<"T","o","t","a","l",":"," ","1",",","2","3","4",",","5","6"," ","E","U","R">>,
      <<"T","6","5","5",",","3","5","E">>,
      <<"T","6","5","5",",","3","6","E">>,
      <<"T","6","5","5","3",",","5","E">>,
      <<"T","1",".","5","E">>,
      <<"1","2",",","3","4"," ","E","U","R">> }

Haystacks == SeqsUpTo(PriceChars, MaxHaystack) \cup PriceSamples
FirstStrings == { <<>>, <<"T">>, <<"T","T">>, <<"T","o","t","a","l",":"," ">> }
SecondStrings == { <<>>, <<"E">>, <<",">>, <<" ","E","U","R">> }

InitPrice ==
    /\ IdlePipeline
    /\ \E h \in Haystacks, f \in FirstStrings, g \in SecondStrings :
          call = [op |-> "price", haystack |-> h, firstString |-> f,
                  secondString |-> g, done |-> FALSE, result |-> NoResult]

CallPrice ==
    /\ call.op = "price"
    /\ ~call.done
    /\ call' = [call EXCEPT !.done = TRUE,
                  !.result = extractPriceBetweenTwoStrings(
                                 call.haystack, call.firstString, call.secondString)]
    /\ UNCHANGED pipeVars

NextPrice == CallPrice

SpecPrice == InitPrice /\ [][NextPrice]_vars

\* the tokens of generated documents
HtmlTokens ==
    { Token("StartTag", ScriptTag), Token("EndTag", ScriptTag),
      Token("StartTag", StyleTag), Token("EndTag", StyleTag),
      Token("StartTag", <<"p">>), Token("EndTag", <<"p">>),
      Token("SelfClosingTag", <<"b","r">>),
      Token("Text", <<"a">>), Token("Text", <<" ","b","&amp;","\n">>),
      Token("Text", <<" ","&nbsp;">>) }

IsRawStart(t) == t.Type = "StartTag" /\ (t.Data = ScriptTag \/ t.Data = StyleTag)

\* The streams the tokenizer can yield: a text token gathers all text up to
\* the next tag, and the content of a script or style element is raw text,
\* one text token at most, ended by the element's end tag or by the end of input.
Tokenizable(tokens) ==
    \A i \in 1..Len(tokens) :
        /\ (tokens[i].Type = "Text" /\ i < Len(tokens)) => tokens[i + 1].Type # "Text"
        /\ (IsRawStart(tokens[i]) /\ i < Len(tokens)) =>
              \/ tokens[i + 1] = Token("EndTag", tokens[i].Data)
              \/ /\ tokens[i + 1].Type = "Text"
                 /\ i + 1 < Len(tokens) => tokens[i + 2] = Token("EndTag", tokens[i].Data)

HtmlDocs == {d \in SeqsUpTo(HtmlTokens, MaxTokens) : Tokenizable(d)}

InitHtml ==
    /\ IdlePipeline
    /\ \E d \in HtmlDocs :
          call = [op |-> "html", tokens |-> d, done |-> FALSE, result |-> <<>>]

CallHtml ==
    /\ call.op = "html"
    /\ ~call.done
    /\ call' = [call EXCEPT !.done = TRUE, !.result = extractTextFromHtml(call.tokens)]
    /\ UNCHANGED pipeVars

NextHtml == CallHtml

SpecHtml == InitHtml /\ [][NextHtml]_vars

ClassifySources ==
    { Source(<<"G","a","s">>, "body", <<"T">>, <<"E">>),
      [Source(<<"G","a","s">>, "body", <<"T">>, <<"E">>) EXCEPT !.SubjectContains = <<>>] }

NoClassification ==
    [subjectHeader |-> 0, bodyPart |-> 0, attachmentPart |-> 0, proceeds |-> FALSE]

InitClassify ==
    /\ IdlePipeline
    /\ \E h \in SeqsUpTo(HeaderKinds, MaxHeaders), p \in SeqsUpTo(PartKinds, MaxParts),
          src \in ClassifySources :
          call = [op |-> "classify", msg |-> Message(month, h, p), source |-> src,
                  done |-> FALSE, result |-> NoClassification]

CallClassify ==
    /\ call.op = "classify"
    /\ ~call.done
    /\ call' = [call EXCEPT !.done = TRUE, !.result = Classify(call.msg, call.source)]
    /\ UNCHANGED pipeVars

NextClassify == CallClassify

SpecClassify == InitClassify /\ [][NextClassify]_vars

---------------------------------------------------------------------------
(* Properties of extractPriceBetweenTwoStrings, under SpecPrice *)

\* sub occurs in h at some 0-based position from `from` on
Occurs(h, sub, from) == \E i \in from..Len(h) : MatchAt(h, sub, i)

\* the first such position
FirstOcc(h, sub, from) ==
    CHOOSE i \in from..Len(h) :
        MatchAt(h, sub, i) /\ \A j \in from..(i - 1) : ~MatchAt(h, sub, j)

\* where the text after the first occurrence of the first anchor starts
AfterBefore(h, before) == FirstOcc(h, before, 0) + Len(before)

\* `before` does not occur, or `after` does not occur past its first occurrence
AnchorMissing(h, before, after) ==
    \/ ~Occurs(h, before, 0)
    \/ ~Occurs(h, after, AfterBefore(h, before))

\* the text strictly between the two anchors
AmountField(h, before, after) ==
    SubSeq(h, AfterBefore(h, before) + 1, FirstOcc(h, after, AfterBefore(h, before)))

\* <digits1>,<digits2> with both runs non-empty
IsPriceField(f) ==
    \E k \in 2..(Len(f) - 1) :
        f[k] = "," /\ \A j \in (1..Len(f)) \ {k} : IsDigit(f[j])
CommaAt(f) == CHOOSE k \in 1..Len(f) : f[k] = ","
Digits1(f) == SubSeq(f, 1, CommaAt(f) - 1)
Digits2(f) == SubSeq(f, CommaAt(f) + 1, Len(f))

PriceCallDone == call.op = "price" /\ call.done
PriceCallField == AmountField(call.haystack, call.firstString, call.secondString)
PriceCallHasField ==
    /\ PriceCallDone
    /\ ~AnchorMissing(call.haystack, call.firstString, call.secondString)
    /\ IsPriceField(PriceCallField)

\* C1: whenever `before` does not occur in the haystack, or `after` does not
\* occur after the end of the first occurrence of `before`, the call ends with
\* an AnchorNotFound error: no panic, no amount.
C1_AnchorNotFound ==
    (PriceCallDone /\ AnchorMissing(call.haystack, call.firstString, call.secondString))
        => call.result.kind = "AnchorNotFound"

\* C2 as stated: for a field <digits1>,<digits2> between the anchors, with
\* digits1*100 + digits2 fitting in 16 bits, the call returns
\* digits1*100 + digits2.
C2_EurosTimesHundred ==
    LET expected == DecVal(Digits1(PriceCallField)) * 100 + DecVal(Digits2(PriceCallField))
    IN  (PriceCallHasField /\ expected < Pow2(16)) => call.result = Amount(expected)

\* C2 as amended: for a field <digits1>,<digits2> between the anchors, the call
\* returns the number the flat concatenation digits1 digits2 denotes, provided
\* that number fits in 16 bits.
C2_FlatConcatenation ==
    LET expected == DecVal(Digits1(PriceCallField) \o Digits2(PriceCallField))
    IN  (PriceCallHasField /\ expected < Pow2(16)) => call.result = Amount(expected)

\* the spec's example: "Total: 12,34 EUR" between "Total: " and " EUR" gives 1234
C2_Witness ==
    /\ PriceCallHasField
    /\ call.firstString = <<"T","o","t","a","l",":"," ">>
    /\ PriceCallField = <<"1","2",",","3","4">>
    /\ call.result = Amount(1234)

---------------------------------------------------------------------------
(* Properties of extractTextFromHtml, under SpecHtml *)

\* the open elements after an end tag: the nearest open element of that name
\* and everything opened inside it are closed; a stray end tag closes nothing
CloseElement(open, name) ==
    LET at == {k \in 1..Len(open) : open[k] = name}
    IN  IF at = {} THEN open
        ELSE SubSeq(open, 1, (CHOOSE k \in at : \A j \in at : j <= k) - 1)

NestedInRawElement(open) ==
    \E k \in 1..Len(open) : open[k] = ScriptTag \/ open[k] = StyleTag

RECURSIVE NestedTextRemoved(_, _, _)
\* the text nodes outside every script and style element, trimmed, one per line
NestedTextRemoved(tokens, i, open) ==
    IF i > Len(tokens) THEN <<>>
    ELSE LET t == tokens[i]
         IN  IF t.Type = "StartTag"
             THEN NestedTextRemoved(tokens, i + 1, Append(open, t.Data))
             ELSE IF t.Type = "EndTag"
             THEN NestedTextRemoved(tokens, i + 1, CloseElement(open, t.Data))
             ELSE IF t.Type = "Text" /\ ~NestedInRawElement(open)
             THEN LET line == TrimSpace(UnescapeString(t.Data))
                  IN  (IF line = <<>> THEN <<>> ELSE line \o <<"\n">>)
                      \o NestedTextRemoved(tokens, i + 1, open)
             ELSE NestedTextRemoved(tokens, i + 1, open)

\* C5: the output holds exactly the non-blank text nodes that are not nested
\* under a script or style start tag, in document order, trimmed, one per
\* line, text after the closing tag of a script or style element included.
C5_DropsExactlyNestedText ==
    (call.op = "html" /\ call.done)
        => call.result = NestedTextRemoved(call.tokens, 1, <<>>)

---------------------------------------------------------------------------
(* Properties of the classification, under SpecClassify *)

ClassifyDone == call.op = "classify" /\ call.done

SubjectMatches(msg, source) ==
    \E i \in 1..Len(msg.Headers) :
        /\ msg.Headers[i].Name = "Subject"
        /\ Occurs(msg.Headers[i].Value, source.SubjectContains, 0)

HasFileAndId(part) ==
    part.Filename # "" /\ part.Body.present /\ part.Body.AttachmentId # ""

\* the first part of the list that is text/html, 0 when there is none
FirstHtmlPart(parts) ==
    LET at == {k \in 1..Len(parts) : parts[k].MimeType = "text/html"}
    IN  IF at = {} THEN 0 ELSE CHOOSE k \in at : \A j \in at : k <= j

\* the first part of the list with a filename and an attachment id
FirstFilePart(parts) ==
    LET at == {k \in 1..Len(parts) : HasFileAndId(parts[k])}
    IN  IF at = {} THEN 0 ELSE CHOOSE k \in at : \A j \in at : k <= j

\* C4: a message proceeds to extraction only if a header named exactly Subject
\* contains rule.SubjectContains and an attachment part was selected; with no
\* part carrying both a filename and an attachment id it never proceeds.
C4_ProceedsOnlyWithSubjectAndAttachment ==
    ClassifyDone =>
        /\ call.result.proceeds =>
              /\ SubjectMatches(call.msg, call.source)
              /\ call.result.attachmentPart \in 1..Len(call.msg.Parts)
              /\ HasFileAndId(call.msg.Parts[call.result.attachmentPart])
        /\ (\A k \in 1..Len(call.msg.Parts) : ~HasFileAndId(call.msg.Parts[k]))
              => ~call.result.proceeds

\* a message that proceeds on its second header, the first being named "subject"
C4_Witness ==
    /\ ClassifyDone
    /\ call.result.proceeds
    /\ call.result.subjectHeader = 2
    /\ call.msg.Headers[1].Name = "subject"

\* C10: body is the first text/html part, attachment is the first part with a
\* filename and an attachment id, each chosen independently of the other.
C10_IndependentSelection ==
    (ClassifyDone /\ call.result.subjectHeader # 0) =>
        /\ call.result.bodyPart = FirstHtmlPart(call.msg.Parts)
        /\ call.result.attachmentPart = FirstFilePart(call.msg.Parts)

---------------------------------------------------------------------------
(* Properties of the run, under Spec *)

Slot(groups, r) == groups[r[1]].Invoices[r[2]]
RuleOf(r) == configs[r[1]].Sources[r[2]]
Ended == {"failed", "panicked"}
Finished(r) == status[r] \in {"Done", "Skipped"}

\* r comes after k in the order the rules are processed
After(r, k) == r[1] > k[1] \/ (r[1] = k[1] /\ r[2] > k[2])

\* the run ended on an error while rule <<configIdx, sourceIdx>> was processed
FailedInRule ==
    /\ pc \in Ended
    /\ <<configIdx, sourceIdx>> \in Rules(configs)
    /\ status[<<configIdx, sourceIdx>>] = "Pending"

\* C3: for the rule being processed at most one message reaches extraction, it
\* is the first in list order that qualifies, no later candidate is fetched,
\* and no invoice slot is written more than once.
C3_AtMostOneMessage ==
    /\ Cardinality(extractedAt) <= 1
    /\ \A i \in extractedAt :
          /\ Len(inspected) = i
          /\ inspected[i]
          /\ \A j \in 1..(i - 1) : ~inspected[j]
    /\ pc # "idle" => \A r \in Rules(configs) : writes[r] <= 1

\* two candidates, the first qualified and its invoice is stored, the second
\* was never fetched
C3_Witness ==
    /\ msgs = 2
    /\ extractedAt = {1}
    /\ Len(inspected) = 1
    /\ lastAttachment # <<>>
    /\ \E r \in Rules(configs) : status[r] = "Done" /\ writes[r] = 1

\* C6: a rule whose search returned no candidate ends Skipped, not in a fatal
\* error; its slot keeps the zero value; and that slot differs from the slot of
\* every extracted invoice, as a value of the result sequence and as a line of
\* the notification text, also when the extracted amount is 0.
C6_SkippedSlotDistinguishable ==
    pc # "idle" =>
        \A r \in noCandidates :
            /\ status[r] = "Skipped"
            /\ ~(FailedInRule /\ r = <<configIdx, sourceIdx>>)
            /\ Slot(invoiceGroups, r) = ZeroInvoice
            /\ \A q \in Rules(configs) :
                  status[q] = "Done" =>
                      /\ Slot(invoiceGroups, q) # Slot(invoiceGroups, r)
                      /\ InvoiceLine(Slot(invoiceGroups, q))
                            # InvoiceLine(Slot(invoiceGroups, r))

\* the notification went out for a run with a rule without candidates and an
\* extracted invoice of amount 0
C6_Witness ==
    /\ sent.done
    /\ \E r \in noCandidates, q \in Rules(configs) :
          status[q] = "Done" /\ Slot(invoiceGroups, q).Value = 0

\* C7: the step that takes a rule to Done stores FileName = BillName + ".pdf",
\* Value = the amount parsed from the extracted text and FileContents = the
\* decoded attachment bytes (for Location "body" too), and changes no other slot.
C7_DoneInvoice ==
    [][\A r \in Rules(configs) :
          (status[r] # "Done" /\ status'[r] = "Done") =>
              /\ Slot(invoiceGroups', r) =
                    [FileName |-> RuleOf(r).BillName \o <<".","p","d","f">>,
                     FileContents |-> B64Decode(lastAttachment').bytes,
                     Value |-> extractPriceBetweenTwoStrings(lastText',
                                  RuleOf(r).StringBeforePrice,
                                  RuleOf(r).StringAfterPrice).value]
              /\ ~B64Decode(lastAttachment').err
              /\ \A g \in 1..Len(configs) :
                    /\ Len(invoiceGroups'[g].Invoices) = Len(invoiceGroups[g].Invoices)
                    /\ \A i \in 1..Len(invoiceGroups[g].Invoices) :
                          <<g, i>> # r => invoiceGroups'[g].Invoices[i]
                                             = invoiceGroups[g].Invoices[i]
      ]_vars

\* a rule with Location "body" is Done: the amount 0 comes from the HTML body,
\* the contents are the attachment's bytes
C7_Witness ==
    /\ pc # "idle"
    /\ \E r \in Rules(configs) :
          /\ status[r] = "Done"
          /\ RuleOf(r).Location = "body"
          /\ lastText = <<"T","0",",","0","0","E","\n">>
          /\ Slot(invoiceGroups, r) =
                [FileName |-> <<"G","a","s",".","p","d","f">>,
                 FileContents |-> <<37, 80, 68>>, Value |-> 0]

C8_Inv ==
    /\ (pc \in {"save", "notify", "done"} \/ uploaded # {} \/ sent.done)
          => \A r \in Rules(configs) : Finished(r)
    /\ FailedInRule =>
          /\ uploaded = {}
          /\ ~sent.done
          /\ \A r \in Rules(configs) :
                After(r, <<configIdx, sourceIdx>>) =>
                    /\ status[r] = "Pending"
                    /\ r \notin searched
                    /\ writes[r] = 0

\* C8: an error ends the run: no step follows it; when rule k fails no later
\* rule is searched or processed, nothing is uploaded and nothing is sent;
\* uploads and the notification happen only once every rule is Done or Skipped.
C8_ErrorsAreFatal == [][pc \notin Ended /\ C8_Inv']_vars

\* the run failed in a rule that has a rule after it, an earlier rule being Done
C8_Witness ==
    /\ FailedInRule
    /\ \E r \in Rules(configs) : After(r, <<configIdx, sourceIdx>>)
    /\ \E r \in Rules(configs) : status[r] = "Done"

\* C9: a message that reached extraction, and so any invoice made from it,
\* has its timestamp in [month, nextMonth): a timestamp outside is fatal.
C9_OutsideWindowIsFatal ==
    cur # NoMessage => (month <= cur.InternalDate /\ cur.InternalDate < nextMonth)

=============================================================================
